---- MODULE Spec2Model ----
(***************************************************************************)
(* Session-scoped vector index of GreenCode-AI: app/core/retriever.py      *)
(* (build_index, load_index, retrieve_chunks), the upload endpoint of       *)
(* app/main.py (upload_docs) and the analysis entry point of               *)
(* app/core/engine.py (comprehensive_legal_analysis), over a file system   *)
(* of per-session artifacts.                                               *)
(*                                                                         *)
(* A string is a record [id, len]: id names its content, len is its number *)
(* of characters, and a slice s[:n] keeps the id and cuts len to n.        *)
(* A normalized vector v/|v| of an integer vector v is kept exactly, as    *)
(* the primitive integer direction of v and its squared norm.              *)
(***************************************************************************)
EXTENDS Integers, Sequences, FiniteSets, TLC

VARIABLES
    fs,        \* the file system: path -> file
    now,       \* the clock reading of the latest upload request, in ticks
    callNo,    \* the number of build_index and upload_docs calls made
    okBuilds,  \* the build_index calls that wrote both artifacts and returned
    issued,    \* the session identifiers upload_docs has made, in call order
    last,      \* the latest call: its arguments and what it returned
    inflight   \* two calls running at the same time, each at its own step

vars == <<fs, now, callNo, okBuilds, issued, last, inflight>>

(***************************************************************************)
(* Bounds of the model.                                                    *)
(***************************************************************************)
MaxChunks == 3
MaxBatch == 2
MaxCalls == 3
MaxK == 2
MaxTick == 2
MaxUploadFiles == 2
OddBatch == 300
TicksPerSecond == 2

(***************************************************************************)
(* Program constants.                                                      *)
(***************************************************************************)
HardLimit == 1000
DefaultBatch == 25
QueryCap == 200
ChunkCap == 500
UploadBatch == 100
MaxFiles == 3
MaxFileSize == 1048576
TextBatchCap == 50
UploadChunkLimit == 1000
RssThreshold == 367001600
DefaultK == 2

Min(a, b) == IF a < b THEN a ELSE b

Abs(a) == IF a < 0 THEN -a ELSE a

(***************************************************************************)
(* Strings.                                                                *)
(***************************************************************************)
Str(i, n) == [id |-> i, len |-> n]

\* s[:n]
Slice(s, n) == [s EXCEPT !.len = Min(s.len, n)]

ChunkPool == {Str(1, 40), Str(2, 501)}

\* The queries: the texts of the chunks and a text embed_texts answers with
\* the zero vector.
QueryPool == {Str(1, 40), Str(2, 501), Str(3, 10)}

Dims == {1, 2}

\* The session identifiers: the clock readings cut to whole seconds.
Sessions == 0 .. (MaxTick \div TicksPerSecond)

\* All sequences over S of length lo..hi.
SeqsOf(S, lo, hi) == UNION {[1 .. n -> S] : n \in lo .. hi}

(***************************************************************************)
(* Artifacts and paths.                                                    *)
(***************************************************************************)
NoFile == [exists |-> FALSE]

Corrupt(b) == [exists |-> TRUE, kind |-> "corrupt", by |-> b]

IndexFile(ix, b) == [exists |-> TRUE, kind |-> "index", d |-> ix.d, rows |-> ix.rows, by |-> b]

MetaFile(cs, b) == [exists |-> TRUE, kind |-> "meta", chunks |-> cs, by |-> b]

\* the paths without the session: one directory for all
get_paths_shared(session_id) ==
    [INDEX_PATH |-> <<"data", 0, "backup", "faiss.index">>,
     META_PATH |-> <<"data", 0, "backup", "chunks.pkl">>]

\* the metadata path without the session: one chunks.pkl for all
get_paths_one_meta(session_id) ==
    [INDEX_PATH |-> <<"data", session_id, "backup", "faiss.index">>,
     META_PATH |-> <<"data", 0, "backup", "chunks.pkl">>]

get_paths(session_id) ==
    [INDEX_PATH |-> <<"data", session_id, "backup", "faiss.index">>,
     META_PATH |-> <<"data", session_id, "backup", "chunks.pkl">>]

\* os.path.dirname(INDEX_PATH)
Dirname(p) == SubSeq(p, 1, Len(p) - 1)

Dir == [exists |-> TRUE, kind |-> "dir"]

AllPaths ==
    UNION {{get_paths(s).INDEX_PATH, get_paths(s).META_PATH, Dirname(get_paths(s).INDEX_PATH)} :
           s \in Sessions}

\* os.path.exists
Exists(f, p) == f[p].exists

(***************************************************************************)
(* The embedding capability (app.core.embedder.embed_texts): one vector    *)
(* per text, all of the width the call answers with, or an error.          *)
(***************************************************************************)
RawEmbed(s, d) ==
    IF s.id = 3 THEN [i \in 1 .. d |-> 0]
    ELSE IF d = 1
    THEN (IF s.id = 1 THEN <<2>> ELSE <<-3>>)
    ELSE (IF s.id = 1 THEN <<2, 0>> ELSE <<2, 2>>)

\* What embed_texts answers for the j-th call of one build or query:
\* plan.failAt names the call that deviates (0: none), by raising or by
\* answering with width plan.d2 instead of plan.d.  plan.mem holds the polls
\* of check_memory_usage, counted within the build, at which the process is
\* above the memory threshold.
EmbedPlans ==
    {p \in [d : Dims, d2 : Dims, failAt : 0 .. MaxChunks, failKind : {"raise", "width"},
            mem : {{}}] :
        /\ p.failKind = "raise" => p.d2 = p.d
        /\ p.failKind = "width" => p.d2 # p.d /\ p.failAt >= 2}

\* The answers that break the capability's contract of one vector per text:
\* the call plan.failAt answers without the vector of its last text.
ShortPlans ==
    {[d |-> 2, d2 |-> 2, failAt |-> j, failKind |-> "count", mem |-> {}] : j \in 1 .. MaxChunks}

embed_texts(batch, plan, j) ==
    IF plan.failAt = j /\ plan.failKind = "raise"
    THEN [raised |-> TRUE, vectors |-> <<>>]
    ELSE IF plan.failAt = j /\ plan.failKind = "count"
    THEN [raised |-> FALSE, vectors |-> [i \in 1 .. Len(batch) - 1 |-> RawEmbed(batch[i], plan.d)]]
    ELSE LET w == IF plan.failAt = j THEN plan.d2 ELSE plan.d
         IN  [raised |-> FALSE, vectors |-> [i \in 1 .. Len(batch) |-> RawEmbed(batch[i], w)]]

(***************************************************************************)
(* normalize_embeddings: each row divided by its Euclidean norm.           *)
(***************************************************************************)
RECURSIVE Gcd(_, _)
Gcd(a, b) == IF b = 0 THEN a ELSE Gcd(b, a % b)

RECURSIVE GcdOf(_)
GcdOf(v) == IF Len(v) = 0 THEN 0 ELSE Gcd(Abs(Head(v)), GcdOf(Tail(v)))

RECURSIVE SumSq(_)
SumSq(v) == IF Len(v) = 0 THEN 0 ELSE Head(v) * Head(v) + SumSq(Tail(v))

\* v / |v| as [num, den2]: the unit vector num / sqrt(den2), num primitive.
\* A zero row gives 0/0 in every component: den2 = 0 marks the NaN row.
NormalizeRow(v) ==
    LET g == GcdOf(v)
    IN  IF g = 0
        THEN [num |-> v, den2 |-> 0]
        ELSE LET p == [i \in 1 .. Len(v) |-> v[i] \div g]
             IN  [num |-> p, den2 |-> SumSq(p)]

normalize_embeddings(vectors) == [i \in 1 .. Len(vectors) |-> NormalizeRow(vectors[i])]

\* vectors.shape[1]
Width(vectors) == Len(vectors[1].num)

(***************************************************************************)
(* faiss.IndexFlatIP: an exact inner-product index of width d.             *)
(***************************************************************************)
NoIndex == [bound |-> FALSE, d |-> 0, rows |-> <<>>]

IndexFlatIP(dim) == [bound |-> TRUE, d |-> dim, rows |-> <<>>]

\* index.add(vectors) with no check of the width
WidthUnchecked(index, vectors) == TRUE

\* index.add(vectors) asserts that the vectors have the index's width ...
WidthMatches(index, vectors) == Width(vectors) = index.d

\* ... and appends them as the next rows.
IndexAdd(index, vectors) == [index EXCEPT !.rows = index.rows \o vectors]

(***************************************************************************)
(* build_index, lines 70-87: the batch loop.  i is the loop variable, j    *)
(* the number of the embed_texts call, log and counts what each call       *)
(* answered: the width of its vectors (0: none) and their number (-1: it   *)
(* raised), polls what check_memory_usage answered after each batch.       *)
(***************************************************************************)
\* range(0, min(len(text_chunks), 1000), batch_size) still has i in it
InRange(text_chunks, i) == i < Min(Len(text_chunks), HardLimit)

\* text_chunks[i:i + batch_size]
BatchAt(text_chunks, i, batch_size) ==
    SubSeq(text_chunks, i + 1, Min(i + batch_size, Len(text_chunks)))

\* all_chunks = batch
ExtendReplacing(all_chunks, batch) == batch

\* all_chunks.extend(c for c in batch if c not in all_chunks)
ExtendDeduplicating(all_chunks, batch) ==
    all_chunks \o SelectSeq(batch, LAMBDA c : \A i \in 1 .. Len(all_chunks) : all_chunks[i] # c)

\* all_chunks.extend(batch)
Extend(all_chunks, batch) == all_chunks \o batch

\* memory_info.rss at the n-th poll of a build
RssAt(plan, n) == IF n \in plan.mem THEN RssThreshold + 1 ELSE RssThreshold

\* lines 19-25: whether the process is above the threshold (gc.collect() has
\* then run)
check_memory_usage(rss) == rss > RssThreshold

\* if check_memory_usage(): break
PolledStopping(signal, go, stop) == IF signal THEN stop ELSE go

\* line 87: check_memory_usage() as a statement, its value dropped; go is the
\* loop going on, stop the loop left here
Polled(signal, go, stop) == go

LoopState(e, index, all_chunks, log, counts, polls) ==
    [err |-> e, index |-> index, all_chunks |-> all_chunks, log |-> log, counts |-> counts,
     polls |-> polls]

RECURSIVE BatchLoop(_, _, _, _, _, _, _, _, _)
\* lines 82-87 of one batch, and the batches after it
Appended(text_chunks, batch_size, plan, i, index, all_chunks, log, counts, polls) ==
    Polled(polls[Len(polls)],
           BatchLoop(text_chunks, batch_size, plan, i + batch_size, index, all_chunks,
                     log, counts, polls),
           LoopState("none", index, all_chunks, log, counts, polls))

BatchLoop(text_chunks, batch_size, plan, i, index, all_chunks, log, counts, polls) ==
    IF ~InRange(text_chunks, i)
    THEN LoopState("none", index, all_chunks, log, counts, polls)
    ELSE LET batch == BatchAt(text_chunks, i, batch_size)
             r == embed_texts(batch, plan, Len(log) + 1)
         IN  IF r.raised
             THEN LoopState("EmbeddingError", index, all_chunks, Append(log, 0),
                            Append(counts, -1), polls)
             ELSE IF Len(r.vectors) = 0
             \* np.linalg.norm(..., axis=1) of the one-dimensional empty array
             THEN LoopState("AxisError", index, all_chunks, Append(log, 0), Append(counts, 0),
                            polls)
             ELSE LET vectors == normalize_embeddings(r.vectors)
                      log1 == Append(log, Width(vectors))
                      counts1 == Append(counts, Len(vectors))
                      index1 == IF i = 0 THEN IndexFlatIP(Width(vectors)) ELSE index
                  IN  IF ~WidthMatches(index1, vectors)
                      THEN LoopState("AssertionError", index1, all_chunks, log1, counts1, polls)
                      ELSE Appended(text_chunks, batch_size, plan, i,
                                    IndexAdd(index1, vectors), Extend(all_chunks, batch),
                                    log1, counts1,
                                    Append(polls, check_memory_usage(RssAt(plan, Len(polls) + 1))))

(***************************************************************************)
(* build_index, lines 89-92: the two writes.  A write can fail (the        *)
(* storage is full or not writable) before the file is opened, leaving the *)
(* path as it was, or part-way, leaving an unreadable file.                *)
(***************************************************************************)
WritePlans == {"ok", "index_unopened", "index_partial", "meta_unopened", "meta_partial"}

\* faiss.write_index(index, INDEX_PATH)
WriteIndex(f, path, index, wr, id) ==
    IF wr = "index_unopened" THEN f
    ELSE IF wr = "index_partial" THEN [f EXCEPT ![path] = Corrupt(id)]
    ELSE [f EXCEPT ![path] = IndexFile(index, id)]

\* with open(META_PATH, "ab") as f: the list goes after what the file holds
WriteMetaAppending(f, path, all_chunks, wr, id) ==
    IF wr = "meta_unopened" THEN f
    ELSE IF wr = "meta_partial" THEN [f EXCEPT ![path] = Corrupt(id)]
    ELSE IF f[path].exists /\ f[path].kind = "meta"
    THEN [f EXCEPT ![path] = MetaFile(f[path].chunks \o all_chunks, id)]
    ELSE [f EXCEPT ![path] = MetaFile(all_chunks, id)]

\* with open(META_PATH, "wb") as f: pickle.dump(all_chunks, f)
WriteMeta(f, path, all_chunks, wr, id) ==
    IF wr = "meta_unopened" THEN f
    ELSE IF wr = "meta_partial" THEN [f EXCEPT ![path] = Corrupt(id)]
    ELSE [f EXCEPT ![path] = MetaFile(all_chunks, id)]

\* the two writes with index = faiss.IndexFlatIP(dim) made before the loop: an
\* index without rows is written like any other
PersistEmpty(f, paths, st, wr, id) ==
    LET f1 == WriteIndex(f, paths.INDEX_PATH, st.index, wr, id)
    IN  IF wr \in {"index_unopened", "index_partial"}
        THEN [fs |-> f1, err |-> "OSError"]
        ELSE [fs |-> WriteMeta(f1, paths.META_PATH, st.all_chunks, wr, id),
              err |-> IF wr = "ok" THEN "none" ELSE "OSError"]

\* lines 90-92; index is unbound when the loop made no iteration
Persist(f, paths, st, wr, id) ==
    IF ~st.index.bound
    THEN [fs |-> f, err |-> "UnboundLocalError"]
    ELSE LET f1 == WriteIndex(f, paths.INDEX_PATH, st.index, wr, id)
         IN  IF wr \in {"index_unopened", "index_partial"}
             THEN [fs |-> f1, err |-> "OSError"]
             ELSE [fs |-> WriteMeta(f1, paths.META_PATH, st.all_chunks, wr, id),
                   err |-> IF wr = "ok" THEN "none" ELSE "OSError"]

\* shutil.rmtree(p, ignore_errors=True) before os.makedirs(p): the directory
\* is made anew, without the files it held
MakedirsClearing(f, p) ==
    [q \in DOMAIN f |-> IF q = p THEN Dir ELSE IF Dirname(q) = p THEN NoFile ELSE f[q]]

\* os.makedirs(os.path.dirname(INDEX_PATH), exist_ok=True)
Makedirs(f, p) == [f EXCEPT ![p] = Dir]

\* the check with the "not" of "not force_rebuild" lost
AlreadyBuiltForced(f, paths, force_rebuild) ==
    Exists(f, paths.INDEX_PATH) /\ Exists(f, paths.META_PATH) /\ force_rebuild

\* the check with "or" between the two files
AlreadyBuiltEither(f, paths, force_rebuild) ==
    (Exists(f, paths.INDEX_PATH) \/ Exists(f, paths.META_PATH)) /\ ~force_rebuild

\* line 62: the already-built check
AlreadyBuilt(f, paths, force_rebuild) ==
    Exists(f, paths.INDEX_PATH) /\ Exists(f, paths.META_PATH) /\ ~force_rebuild

BuildReturn(f, e, np, log, counts, polls) ==
    [fs |-> f, raised |-> e # "none", err |-> e, noop |-> np, log |-> log, counts |-> counts,
     polls |-> polls]

\* build_index(text_chunks, session_id, force_rebuild, batch_size) on the file
\* system f, as call number id.
build_index(f, text_chunks, session_id, force_rebuild, batch_size, plan, wr, id) ==
    LET paths == get_paths(session_id)
        f0 == Makedirs(f, Dirname(paths.INDEX_PATH))
    IN  IF AlreadyBuilt(f0, paths, force_rebuild)
        THEN BuildReturn(f0, "none", TRUE, <<>>, <<>>, <<>>)
        ELSE LET st == BatchLoop(text_chunks, batch_size, plan, 0, NoIndex, <<>>, <<>>, <<>>,
                                 <<>>)
             IN  IF st.err # "none"
                 THEN BuildReturn(f0, st.err, FALSE, st.log, st.counts, st.polls)
                 ELSE LET w == Persist(f0, paths, st, wr, id)
                      IN  BuildReturn(w.fs, w.err, FALSE, st.log, st.counts, st.polls)

(***************************************************************************)
(* load_index, lines 103-113.                                              *)
(***************************************************************************)
\* open(META_PATH, "ab"): a file that does not exist is created, empty
OpenedForAppend(f, paths) ==
    IF Exists(f, paths.META_PATH) THEN f
    ELSE [f EXCEPT ![paths.META_PATH] = Corrupt(<<0, 0>>)]

\* faiss.read_index(INDEX_PATH) and open(META_PATH, "rb") leave every file
\* as it is
OpenedForRead(f, paths) == f

Loaded(e, index, chunks) == [err |-> e, index |-> index, chunks |-> chunks]

load_index(f, session_id) ==
    LET paths == get_paths(session_id)
        ixf == f[paths.INDEX_PATH]
        mf == f[paths.META_PATH]
    IN  IF ~Exists(f, paths.INDEX_PATH) THEN Loaded("FileNotFoundError", NoIndex, <<>>)
        ELSE IF ixf.kind # "index" THEN Loaded("RuntimeError", NoIndex, <<>>)
        ELSE IF ~Exists(f, paths.META_PATH) THEN Loaded("FileNotFoundError", NoIndex, <<>>)
        ELSE IF mf.kind # "meta" THEN Loaded("UnpicklingError", NoIndex, <<>>)
        ELSE Loaded("none", [bound |-> TRUE, d |-> ixf.d, rows |-> ixf.rows], mf.chunks)

(***************************************************************************)
(* index.search(q_vec, k) of IndexFlatIP: the k rows of highest inner      *)
(* product with q, best first, as 0-based row numbers; a row whose score   *)
(* is NaN never enters the result heap, and the slots that stay empty hold *)
(* -1.  The order of rows of equal score is left open.                     *)
(***************************************************************************)
RECURSIVE Dot(_, _)
Dot(u, v) == IF Len(u) = 0 THEN 0 ELSE Head(u) * Head(v) + Dot(Tail(u), Tail(v))

Sgn(a) == IF a < 0 THEN -1 ELSE IF a > 0 THEN 1 ELSE 0

IsNaN(r) == r.den2 = 0

\* score(r1) >= score(r2), the score of r being Dot(r.num, q.num) / sqrt(r.den2 * q.den2)
ScoreGeq(r1, r2, q) ==
    LET a == Dot(r1.num, q.num)
        b == Dot(r2.num, q.num)
    IN  Sgn(a) * a * a * r2.den2 >= Sgn(b) * b * b * r1.den2

Injective(s) == \A i, j \in DOMAIN s : i # j => s[i] # s[j]

\* the first k rows, whatever their scores
SearchResultsUnranked(index, q, k) ==
    {[i \in 1 .. k |-> IF i <= Len(index.rows) THEN i - 1 ELSE -1]}

SearchResults(index, q, k) ==
    LET n == Len(index.rows)
        valid == IF IsNaN(q) THEN {} ELSE {i \in 1 .. n : ~IsNaN(index.rows[i])}
        m == Min(k, Cardinality(valid))
        best == {s \in [1 .. m -> valid] :
                    /\ Injective(s)
                    /\ \A i \in 1 .. m - 1 : ScoreGeq(index.rows[s[i]], index.rows[s[i + 1]], q)
                    /\ \A i \in 1 .. m : \A o \in valid \ {s[x] : x \in 1 .. m} :
                           ScoreGeq(index.rows[s[i]], index.rows[o], q)}
    IN  {[i \in 1 .. k |-> IF i <= m THEN s[i] - 1 ELSE -1] : s \in best}

(***************************************************************************)
(* retrieve_chunks, lines 115-145.  Every exception is caught at line 141  *)
(* and the call returns the empty list.                                    *)
(***************************************************************************)
\* chunks[i] of a Python list: a negative i counts from the end
PyInRange(chunks, i) == -Len(chunks) <= i /\ i < Len(chunks)

PyGet(chunks, i) == IF i >= 0 THEN chunks[i + 1] ELSE chunks[Len(chunks) + i + 1]

\* the 0-based position chunks[i] reads
PyPos(chunks, i) == IF i >= 0 THEN i ELSE Len(chunks) + i

\* [chunks[-1 - i][:500] for i in I[0]]: the list read from its end
ProjectFromEnd(chunks, I) == [x \in 1 .. Len(I) |-> Slice(PyGet(chunks, -1 - I[x]), ChunkCap)]

\* [chunks[i][:500] for i in I[0]]
Project(chunks, I) == [x \in 1 .. Len(I) |-> Slice(PyGet(chunks, I[x]), ChunkCap)]

\* What a call returns: value; raised is whether an exception left the call,
\* err the exception caught inside it, rows the rows the search answered with.
Retrieved(v, e, I, log) ==
    [raised |-> FALSE, value |-> v, err |-> e, rows |-> I, log |-> log]

\* line 141-143: except Exception: return []
Swallow(e, I, log) == Retrieved(<<>>, e, I, log)

\* lines 122-143, load_index having answered ld: the results the call can
\* return.
SearchLoaded(ld, query, k, plan) ==
    IF ld.err # "none" THEN {Swallow(ld.err, <<>>, <<>>)}
    ELSE LET r == embed_texts(<<Slice(query, QueryCap)>>, plan, 1)
         IN  IF r.raised THEN {Swallow("EmbeddingError", <<>>, <<0>>)}
             ELSE LET q_vec == normalize_embeddings(r.vectors)
                      log == <<Width(q_vec)>>
                      kk == Min(k, Len(ld.chunks))
                  IN  IF Width(q_vec) # ld.index.d \/ kk <= 0
                      THEN {Swallow("AssertionError", <<>>, log)}
                      ELSE {IF \A x \in 1 .. kk : PyInRange(ld.chunks, I[x])
                            THEN Retrieved(Project(ld.chunks, I), "none", I, log)
                            ELSE Swallow("IndexError", I, log) :
                            I \in SearchResults(ld.index, q_vec[1], kk)}

\* The results retrieve_chunks(query, session_id, k) can return on f.
retrieve_chunks(f, query, session_id, k, plan) ==
    SearchLoaded(load_index(f, session_id), query, k, plan)

(***************************************************************************)
(* upload_docs, app/main.py lines 102-208.  A file is [size, readable,     *)
(* batches]: its size in bytes, whether load_content can read it, and the  *)
(* text batches chunk_text yields for its text.  The temporary copy of a   *)
(* file is written and removed again inside the call.                      *)
(***************************************************************************)
\* datetime.now().strftime("%Y%m%d_%H%M%S"): the clock cut to whole seconds
Strftime(t) == t \div TicksPerSecond

File(sz, rd, bs) == [size |-> sz, readable |-> rd, batches |-> bs]

\* load_content(file_path): raises on a file it cannot read
load_content(file) == [raised |-> ~file.readable]

\* chunk_text(raw_text): the text batches of the file's text
chunk_text(file) == file.batches

Response(st, n) == [status |-> st, chunks |-> n]

\* The state of one upload_docs call: u.exc is the exception the per-file try
\* block is unwinding with, u.fatal the one that reaches the outer except,
\* u.builds the build_index calls made so far.
BuildCall(chunks, r) == [chunks |-> chunks, noop |-> r.noop, err |-> r.err]

\* lines 149-162: for text_batch in chunk_text(raw_text)
RECURSIVE TextLoop(_, _, _, _, _, _)
\* lines 156-162: after build_index(current_batch[:batch_size], session_id)
\* has returned r
AfterBuild(u1, cb, r, batches, session_id, plan, wr, id) ==
    LET u2 == [u1 EXCEPT !.fs = r.fs,
                         !.builds = Append(u1.builds, BuildCall(SubSeq(cb, 1, UploadBatch), r))]
        u3 == [u2 EXCEPT !.current_batch = SubSeq(cb, UploadBatch + 1, Len(cb))]
    IN  IF r.raised THEN [u2 EXCEPT !.exc = r.err]
        ELSE IF u3.total > UploadChunkLimit THEN u3
        ELSE TextLoop(u3, Tail(batches), session_id, plan, wr, id)

TextLoop(u, batches, session_id, plan, wr, id) ==
    IF Len(batches) = 0 THEN u
    ELSE LET chunks == SubSeq(Head(batches), 1, Min(Len(Head(batches)), TextBatchCap))
             cb == u.current_batch \o chunks
             u1 == [u EXCEPT !.current_batch = cb, !.total = u.total + Len(chunks)]
         IN  IF Len(cb) < UploadBatch
             THEN TextLoop(u1, Tail(batches), session_id, plan, wr, id)
             ELSE AfterBuild(u1, cb,
                             build_index(u.fs, SubSeq(cb, 1, UploadBatch), session_id, FALSE,
                                         DefaultBatch, plan, wr, <<id, Len(u.builds) + 1>>),
                             batches, session_id, plan, wr, id)

\* lines 164-172: after the text loop of one file
AfterText(u2) ==
    IF u2.exc # "none" THEN u2
    ELSE IF u2.total > UploadChunkLimit THEN [u2 EXCEPT !.stop = TRUE]
    ELSE [u2 EXCEPT !.responses =
              Append(u2.responses, Response("processed", Len(u2.current_batch)))]

\* lines 128-172: the try block of one file
TryFile(u, file, session_id, plan, wr, id) ==
    IF file.size > MaxFileSize THEN [u EXCEPT !.exc = "ValueError"]
    ELSE IF load_content(file).raised THEN [u EXCEPT !.path_bound = TRUE, !.exc = "LoadError"]
    ELSE AfterText(TextLoop([u EXCEPT !.path_bound = TRUE], chunk_text(file),
                            session_id, plan, wr, id))

\* lines 174-184: except appends the failure; finally tests file_path, which
\* is unbound when no file of the call has got as far as line 135
ExceptFinally(u) ==
    LET u1 == IF u.exc = "none" THEN u
              ELSE [u EXCEPT !.responses = Append(u.responses, Response("failed", 0)),
                             !.exc = "none"]
    IN  IF u1.path_bound THEN u1 ELSE [u1 EXCEPT !.fatal = "UnboundLocalError"]

\* lines 127-184: for uploaded_file in uploaded_files
RECURSIVE FileLoop(_, _, _, _, _, _)
\* after one file: an error of the finally block or the break of line 164
\* ends the loop
AfterFile(u1, files, session_id, plan, wr, id) ==
    IF u1.fatal # "none" \/ u1.stop THEN u1
    ELSE FileLoop(u1, Tail(files), session_id, plan, wr, id)

FileLoop(u, files, session_id, plan, wr, id) ==
    IF Len(files) = 0 THEN u
    ELSE AfterFile(ExceptFinally(TryFile(u, Head(files), session_id, plan, wr, id)),
                   files, session_id, plan, wr, id)

\* lines 186-189: the final batch
AfterFinalBuild(u, cs, r) ==
    [u EXCEPT !.fs = r.fs, !.builds = Append(u.builds, BuildCall(cs, r)), !.fatal = r.err]

FinalBatch(u, session_id, plan, wr, id) ==
    IF u.fatal # "none" \/ Len(u.current_batch) = 0 THEN u
    ELSE AfterFinalBuild(u, SubSeq(u.current_batch, 1, Min(Len(u.current_batch), UploadBatch)),
                         build_index(u.fs,
                                     SubSeq(u.current_batch, 1,
                                            Min(Len(u.current_batch), UploadBatch)),
                                     session_id, FALSE, DefaultBatch, plan, wr,
                                     <<id, Len(u.builds) + 1>>))

\* lines 199-208: the response, or the outer except's error
UploadReturn(u, session_id) ==
    [fs |-> u.fs, session_id |-> session_id, builds |-> u.builds,
     status |-> IF u.fatal = "none" THEN "success" ELSE "error",
     indexed_files |-> IF u.fatal = "none" THEN u.responses ELSE <<>>,
     total_chunks |-> IF u.fatal = "none" THEN u.total ELSE 0]

upload_docs(f, uploaded_files, t, plan, wr, id) ==
    LET session_id == Strftime(t)
        files == SubSeq(uploaded_files, 1, Min(Len(uploaded_files), MaxFiles))
        u0 == [fs |-> f, responses |-> <<>>, current_batch |-> <<>>, total |-> 0,
               path_bound |-> FALSE, builds |-> <<>>, exc |-> "none", fatal |-> "none",
               stop |-> FALSE]
    IN  UploadReturn(FinalBatch(FileLoop(u0, files, session_id, plan, wr, id),
                                session_id, plan, wr, id),
                     session_id)

(***************************************************************************)
(* comprehensive_legal_analysis, app/core/engine.py lines 219-277.  What a  *)
(* call answers is kept as its error message, its analysis_type, the       *)
(* chunks of its retrieval and, for every call of generate_content it      *)
(* makes, in order, the clauses put into the prompt.  generate_content     *)
(* catches its own errors and the helpers catch those of the parsing.      *)
(***************************************************************************)
NoClauses == "No relevant clauses found for your query."

AnalysisTypes == {"qa", "translate", "risk", "comprehensive", "summary"}

\* lines 131-137: one call of generate_content, on the clauses
translate_legal_jargon(clauses) == <<clauses>>

\* lines 160-166: one call of generate_content, on the clauses
analyze_document_risks(clauses) == <<clauses>>

\* lines 191-198: a retrieval of its own, then one call of generate_content
\* on what it returned
answer_legal_question(f, query, session_id, plan) ==
    {<<r.value>> : r \in retrieve_chunks(f, query, session_id, DefaultK, plan)}

\* if retrieved_chunks is None
IsNone(retrieved_chunks) == FALSE

\* line 223: not retrieved_chunks
IsEmpty(retrieved_chunks) == Len(retrieved_chunks) = 0

Analysed(msg, type, r, generated) ==
    [error |-> msg, type |-> type, retrieved |-> r.value, err |-> r.err,
     generated |-> generated]

\* lines 226-277, the retrieval of line 221 having answered r
Dispatch(f, query, session_id, analysis_type, r, plan) ==
    IF analysis_type = "translate"
    THEN {Analysed("none", "translation", r, translate_legal_jargon(r.value))}
    ELSE IF analysis_type = "risk"
    THEN {Analysed("none", "risk_analysis", r, analyze_document_risks(r.value))}
    ELSE IF analysis_type = "comprehensive"
    THEN {Analysed("none", "comprehensive", r,
                   translate_legal_jargon(r.value) \o analyze_document_risks(r.value) \o g) :
              g \in answer_legal_question(f, query, session_id, plan)}
    ELSE {Analysed("none", "qa", r, g) : g \in answer_legal_question(f, query, session_id, plan)}

\* lines 223-224, then the rest
AfterRetrieval(f, query, session_id, analysis_type, r, plan) ==
    IF IsEmpty(r.value) THEN {Analysed(NoClauses, "none", r, <<>>)}
    ELSE Dispatch(f, query, session_id, analysis_type, r, plan)

\* What comprehensive_legal_analysis(query, session_id, analysis_type) can
\* answer on f; plan1 and plan2 are the embedder's answers to the retrieval
\* of line 221 and to that of answer_legal_question.
comprehensive_legal_analysis(f, query, session_id, analysis_type, plan1, plan2) ==
    UNION {AfterRetrieval(f, query, session_id, analysis_type, r, plan2) :
               r \in retrieve_chunks(f, query, session_id, DefaultK, plan1)}

(***************************************************************************)
(* The calls.  Each action is one whole call; last holds the call's        *)
(* arguments and what it returned until the caller has taken the result.   *)
(***************************************************************************)
Idle == [op |-> "none"]

\* no two calls are running at the same time
NoCalls == [fs0 |-> <<>>, calls |-> <<>>]

\* number of embed_texts calls a build of these chunks makes at most
NumBatches(text_chunks, batch_size) ==
    (Min(Len(text_chunks), HardLimit) + batch_size - 1) \div batch_size

\* The embedder's and the storage's behaviours that differ for this build:
\* the builds are answered with width 2, a deviating answer has width 1.
BuildEnvs(text_chunks, batch_size) ==
    {e \in [plan : {p \in EmbedPlans : p.d = 2}, wr : WritePlans] :
        /\ e.plan.failAt <= NumBatches(text_chunks, batch_size)
        /\ e.wr # "ok" => e.plan.failAt = 0 /\ Len(text_chunks) > 0}

QueryPlans == {p \in EmbedPlans : p.failAt <= 1}

ChunkOf(i) == IF i = 1 THEN Str(1, 40) ELSE Str(2, 501)

\* The chunk sequences of the calls: the two chunks in turn, from either one.
Alternating(n, first) == [i \in 1 .. n |-> ChunkOf(1 + ((first + i) % 2))]

ChunkSeqs == {Alternating(n, first) : n \in 0 .. MaxChunks, first \in {0, 1}}

BatchSizes == 1 .. MaxBatch

\* The files of the upload requests.
FilePool ==
    {File(MaxFileSize + 1, TRUE, <<>>),
     File(100, FALSE, <<>>),
     File(200, TRUE, <<<<Str(2, 501), Str(1, 40)>>>>)}

\* A file of three text batches of 50 chunks: more than one build_index call
\* takes.
LargeFile == File(300, TRUE, [b \in 1 .. 3 |-> Alternating(TextBatchCap, b)])

FileLists == SeqsOf(FilePool, 1, MaxUploadFiles)

Init ==
    /\ fs = [p \in AllPaths |-> NoFile]
    /\ now = 0
    /\ callNo = 0
    /\ okBuilds = {}
    /\ issued = <<>>
    /\ last = Idle
    /\ inflight = NoCalls

\* What a session holds: the number of rows of its index and of entries of its
\* metadata list (-1: no such file, -2: an unreadable one).
Count(file, field) ==
    IF ~file.exists THEN -1 ELSE IF file.kind = "corrupt" THEN -2 ELSE Len(file[field])

Held(f, session_id) ==
    [rows |-> Count(f[get_paths(session_id).INDEX_PATH], "rows"),
     chunks |-> Count(f[get_paths(session_id).META_PATH], "chunks")]

\* A call that can write starts while the bound on such calls allows it.
CanCall == last = Idle /\ callNo < MaxCalls

BuildIndex(text_chunks, session_id, force_rebuild, batch_size, env) ==
    /\ LET id == <<callNo + 1, 1>>
           r == build_index(fs, text_chunks, session_id, force_rebuild, batch_size,
                            env.plan, env.wr, id)
       IN  /\ fs' = r.fs
           /\ okBuilds' = IF ~r.raised /\ ~r.noop THEN okBuilds \cup {id} ELSE okBuilds
           /\ last' = [op |-> "build", id |-> id, session_id |-> session_id,
                       text_chunks |-> text_chunks, force_rebuild |-> force_rebuild,
                       batch_size |-> batch_size, prev |-> Held(fs, session_id),
                       raised |-> r.raised, err |-> r.err, noop |-> r.noop, log |-> r.log,
                       counts |-> r.counts, polls |-> r.polls, env |-> env]
    /\ callNo' = callNo + 1
    /\ UNCHANGED <<now, issued, inflight>>

RetrieveChunks(query, session_id, k, plan) ==
    /\ \E r \in retrieve_chunks(fs, query, session_id, k, plan) :
           last' = [op |-> "retrieve", session_id |-> session_id, query |-> query, k |-> k,
                    raised |-> r.raised, value |-> r.value, err |-> r.err, rows |-> r.rows,
                    log |-> r.log]
    /\ fs' = OpenedForRead(fs, get_paths(session_id))
    /\ UNCHANGED <<now, callNo, okBuilds, issued, inflight>>

\* upload_docs, called when the clock reads t.
UploadDocs(uploaded_files, t, env) ==
    /\ \E r \in {upload_docs(fs, uploaded_files, t, env.plan, env.wr, callNo + 1)} :
           /\ fs' = r.fs
           /\ okBuilds' = okBuilds \cup
                  {<<callNo + 1, n>> : n \in {x \in 1 .. Len(r.builds) :
                                              r.builds[x].err = "none" /\ ~r.builds[x].noop}}
           /\ last' = [op |-> "upload", id |-> callNo + 1, uploaded_files |-> uploaded_files,
                       session_id |-> r.session_id, status |-> r.status,
                       indexed_files |-> r.indexed_files, total_chunks |-> r.total_chunks,
                       builds |-> r.builds]
    /\ callNo' = callNo + 1
    /\ issued' = Append(issued, Strftime(t))
    /\ now' = t
    /\ UNCHANGED inflight

ComprehensiveLegalAnalysis(query, session_id, analysis_type, plan1, plan2) ==
    /\ \E a \in comprehensive_legal_analysis(fs, query, session_id, analysis_type,
                                              plan1, plan2) :
           last' = [op |-> "analysis", session_id |-> session_id, query |-> query,
                    analysis_type |-> analysis_type, error |-> a.error, type |-> a.type,
                    retrieved |-> a.retrieved, err |-> a.err, generated |-> a.generated]
    /\ fs' = OpenedForRead(fs, get_paths(session_id))
    /\ UNCHANGED <<now, callNo, okBuilds, issued, inflight>>

\* The caller takes the result.
Return ==
    /\ last # Idle
    /\ last' = Idle
    /\ UNCHANGED <<fs, now, callNo, okBuilds, issued, inflight>>

DoBuild(sessions, seqs) ==
    /\ CanCall
    /\ \E text_chunks \in seqs, session_id \in sessions, force_rebuild \in BOOLEAN,
          batch_size \in BatchSizes :
           \E env \in BuildEnvs(text_chunks, batch_size) :
               BuildIndex(text_chunks, session_id, force_rebuild, batch_size, env)

DoRetrieve(sessions) ==
    /\ last = Idle
    /\ \E query \in QueryPool, session_id \in sessions, k \in 1 .. MaxK, plan \in QueryPlans :
           RetrieveChunks(query, session_id, k, plan)

\* The clock never runs backwards; any time may pass before a request.
DoUpload ==
    /\ CanCall
    /\ \E uploaded_files \in FileLists, t \in now .. MaxTick :
           \E env \in BuildEnvs(<<Str(1, 40)>>, DefaultBatch) :
               UploadDocs(uploaded_files, t, env)

\* Calls on one session.
Next == DoBuild({0}, ChunkSeqs) \/ DoRetrieve({0}) \/ Return

Spec == Init /\ [][Next]_vars

\* Calls on every session, with the chunk sequences of at most one chunk.
ShortSeqs == {s \in ChunkSeqs : Len(s) <= 1}

NextSessions == DoBuild(Sessions, ShortSeqs) \/ DoRetrieve(Sessions) \/ Return

SpecSessions == Init /\ [][NextSessions]_vars

\* Builds on one session of chunk sequences up to and around the hard limit:
\* the long ones with a batch size that divides the limit (as the default one
\* does) or one that does not; the storage takes every write and the embedder
\* answers every batch or fails on the first.
DividingBatch == HardLimit \div 4

LongSeqs == {Alternating(n, 0) : n \in {HardLimit, HardLimit + 1}}

LimitInputs ==
    [text_chunks : {s \in ChunkSeqs : Len(s) > 0 /\ s[1].id = 2}, batch_size : BatchSizes]
        \cup [text_chunks : LongSeqs, batch_size : {DividingBatch, OddBatch}]

DoLimitBuild ==
    /\ CanCall
    /\ \E in \in LimitInputs, force_rebuild \in BOOLEAN :
           \E env \in {e \in BuildEnvs(in.text_chunks, in.batch_size) :
                           e.wr = "ok" /\ e.plan.failAt <= 1} :
               BuildIndex(in.text_chunks, 0, force_rebuild, in.batch_size, env)

NextLimit == DoLimitBuild \/ Return

SpecLimit == Init /\ [][NextLimit]_vars

\* Builds and queries on one session with an embedder that answers some text
\* with the zero vector or some call with a vector too few.
ZeroText == Str(3, 10)

ZeroSeqs ==
    {[s EXCEPT ![p] = ZeroText] : s \in {c \in ChunkSeqs : Len(c) \in 1 .. 2}, p \in 1 .. 2}
        \cap SeqsOf(ChunkPool \cup {ZeroText}, 1, 2)

FaultEnvs(text_chunks, batch_size) ==
    BuildEnvs(text_chunks, batch_size)
        \cup {[plan |-> p, wr |-> "ok"] :
                  p \in {x \in ShortPlans : x.failAt <= NumBatches(text_chunks, batch_size)}}

DoFaultyBuild ==
    /\ CanCall
    /\ \E text_chunks \in ZeroSeqs \cup {c \in ChunkSeqs : Len(c) \in 1 .. 2},
          force_rebuild \in BOOLEAN, batch_size \in BatchSizes :
           \E env \in FaultEnvs(text_chunks, batch_size) :
               BuildIndex(text_chunks, 0, force_rebuild, batch_size, env)

NextFaults == DoFaultyBuild \/ DoRetrieve({0}) \/ Return

SpecFaults == Init /\ [][NextFaults]_vars

\* Builds on one session while the process is above the memory threshold at
\* any of the polls.
MemSignals(text_chunks, batch_size) == SUBSET (1 .. NumBatches(text_chunks, batch_size))

MemoryEnvs(text_chunks, batch_size) ==
    {[e EXCEPT !.plan.mem = m] :
        e \in BuildEnvs(text_chunks, batch_size), m \in MemSignals(text_chunks, batch_size)}

DoBuildUnderPressure ==
    /\ CanCall
    /\ \E text_chunks \in ChunkSeqs, force_rebuild \in BOOLEAN, batch_size \in BatchSizes :
           \E env \in MemoryEnvs(text_chunks, batch_size) :
               BuildIndex(text_chunks, 0, force_rebuild, batch_size, env)

NextMemory == DoBuildUnderPressure \/ Return

SpecMemory == Init /\ [][NextMemory]_vars

\* Builds and analyses on every session.
DoAnalysis ==
    /\ last = Idle
    /\ \E query \in QueryPool, session_id \in Sessions, analysis_type \in AnalysisTypes,
          plan1 \in QueryPlans, plan2 \in QueryPlans :
           ComprehensiveLegalAnalysis(query, session_id, analysis_type, plan1, plan2)

NextAnalysis == DoBuild(Sessions, ShortSeqs) \/ DoAnalysis \/ Return

SpecAnalysis == Init /\ [][NextAnalysis]_vars

\* Upload requests with a file of more chunks than one build_index call is
\* given; the embedder answers every batch or fails on the first of a build.
LargeFileLists ==
    {fl \in SeqsOf(FilePool \cup {LargeFile}, 1, MaxUploadFiles) :
        \E i \in 1 .. Len(fl) : fl[i] = LargeFile}

DoLargeUpload ==
    /\ CanCall
    /\ \E uploaded_files \in LargeFileLists \cup FileLists, t \in now .. MaxTick :
           \E env \in {e \in BuildEnvs(<<Str(1, 40)>>, DefaultBatch) : e.wr = "ok"} :
               UploadDocs(uploaded_files, t, env)

NextLargeUpload == DoLargeUpload \/ Return

SpecLargeUpload == Init /\ [][NextLargeUpload]_vars

\* Upload requests and queries.
NextUpload == DoUpload \/ DoRetrieve(Sessions) \/ Return

SpecUpload == Init /\ [][NextUpload]_vars

(***************************************************************************)
(* Two calls at the same time.  A call advances by the steps in which it   *)
(* touches the file system: build_index by os.makedirs with the check of   *)
(* line 62 and the batch loop (which touches no file), by                  *)
(* faiss.write_index and by the dump of the metadata; retrieve_chunks by   *)
(* faiss.read_index, by pickle.load and by the rest of the call.  The      *)
(* embedder answers every text and the storage takes every write.          *)
(***************************************************************************)
OkPlan == [d |-> 2, d2 |-> 2, failAt |-> 0, failKind |-> "raise", mem |-> {}]

\* A running call: its arguments, its number, the step it is at and its
\* local variables; readBy names the calls that wrote the files it has read.
Running(c, id) ==
    [pc |-> "begin", call |-> c, id |-> id, index |-> NoIndex, chunks |-> <<>>,
     err |-> "none", noop |-> FALSE, value |-> <<>>, rows |-> <<>>, readBy |-> <<>>]

\* the call that wrote the file at path
WriterOf(f, path) == IF Exists(f, path) THEN f[path].by ELSE <<0, 0>>

Stepped(f, r) == [fs |-> f, proc |-> r]

\* lines 66-87 done: the loop has failed or the writes follow
BuildLooped(f, r, st) ==
    IF st.err # "none"
    THEN Stepped(f, [r EXCEPT !.pc = "done", !.err = st.err])
    ELSE Stepped(f, [r EXCEPT !.pc = "write_index", !.index = st.index,
                              !.chunks = st.all_chunks])

\* lines 57-87
BuildBegin(f, r) ==
    LET paths == get_paths(r.call.session_id)
        f0 == Makedirs(f, Dirname(paths.INDEX_PATH))
    IN  IF AlreadyBuilt(f0, paths, r.call.force_rebuild)
        THEN Stepped(f0, [r EXCEPT !.pc = "done", !.noop = TRUE])
        ELSE BuildLooped(f0, r, BatchLoop(r.call.text_chunks, r.call.batch_size, OkPlan,
                                          0, NoIndex, <<>>, <<>>, <<>>, <<>>))

\* line 90
BuildWriteIndex(f, r) ==
    IF ~r.index.bound
    THEN Stepped(f, [r EXCEPT !.pc = "done", !.err = "UnboundLocalError"])
    ELSE Stepped(WriteIndex(f, get_paths(r.call.session_id).INDEX_PATH, r.index, "ok", r.id),
                 [r EXCEPT !.pc = "write_meta"])

\* lines 91-92
BuildWriteMeta(f, r) ==
    Stepped(WriteMeta(f, get_paths(r.call.session_id).META_PATH, r.chunks, "ok", r.id),
            [r EXCEPT !.pc = "done"])

\* lines 108-110
LoadIndexFile(f, paths) ==
    IF ~Exists(f, paths.INDEX_PATH) THEN Loaded("FileNotFoundError", NoIndex, <<>>)
    ELSE IF f[paths.INDEX_PATH].kind # "index" THEN Loaded("RuntimeError", NoIndex, <<>>)
    ELSE Loaded("none", [bound |-> TRUE, d |-> f[paths.INDEX_PATH].d,
                         rows |-> f[paths.INDEX_PATH].rows], <<>>)

\* lines 111-112
LoadMetaFile(f, paths) ==
    IF ~Exists(f, paths.META_PATH) THEN Loaded("FileNotFoundError", NoIndex, <<>>)
    ELSE IF f[paths.META_PATH].kind # "meta" THEN Loaded("UnpicklingError", NoIndex, <<>>)
    ELSE Loaded("none", NoIndex, f[paths.META_PATH].chunks)

RetrieveRead(r, ld, next, by) ==
    IF ld.err # "none" THEN [r EXCEPT !.pc = "search", !.err = ld.err]
    ELSE IF next = "load_meta"
    THEN [r EXCEPT !.pc = next, !.index = ld.index, !.readBy = Append(r.readBy, by)]
    ELSE [r EXCEPT !.pc = next, !.chunks = ld.chunks, !.readBy = Append(r.readBy, by)]

\* lines 125-143
RetrieveSearch(f, r) ==
    {Stepped(f, [r EXCEPT !.pc = "done", !.value = x.value, !.err = x.err, !.rows = x.rows]) :
        x \in SearchLoaded(Loaded(r.err, r.index, r.chunks), r.call.query, r.call.k, OkPlan)}

\* What the next step of the running call r can make of the file system f.
StepOutcomes(f, r) ==
    IF r.call.op = "build"
    THEN (IF r.pc = "begin" THEN {BuildBegin(f, r)}
          ELSE IF r.pc = "write_index" THEN {BuildWriteIndex(f, r)}
          ELSE {BuildWriteMeta(f, r)})
    ELSE (IF r.pc = "begin"
          THEN {Stepped(OpenedForRead(f, get_paths(r.call.session_id)),
                        RetrieveRead(r, LoadIndexFile(f, get_paths(r.call.session_id)),
                                     "load_meta",
                                     WriterOf(f, get_paths(r.call.session_id).INDEX_PATH)))}
          ELSE IF r.pc = "load_meta"
          THEN {Stepped(f, RetrieveRead(r, LoadMetaFile(f, get_paths(r.call.session_id)),
                                        "search",
                                        WriterOf(f, get_paths(r.call.session_id).META_PATH)))}
          ELSE RetrieveSearch(f, r))

\* The calls that run at the same time.
ConcurrentBuilds ==
    [op : {"build"}, session_id : Sessions,
     text_chunks : {c \in ChunkSeqs : Len(c) \in 1 .. 2 /\ c[1].id = 2},
     force_rebuild : BOOLEAN, batch_size : {1}, query : {Str(1, 40)}, k : {1}]

ConcurrentRetrieves ==
    [op : {"retrieve"}, session_id : Sessions, text_chunks : {<<>>}, force_rebuild : {FALSE},
     batch_size : {1}, query : {Str(1, 40), Str(2, 501)}, k : 1 .. MaxK]

\* no call is at a step
Quiet == \A p \in DOMAIN inflight.calls : inflight.calls[p].pc = "done"

\* Two calls start; fs0 keeps the file system they start on.
StartCalls(c1, c2) ==
    /\ inflight' = [fs0 |-> fs,
                    calls |-> <<Running(c1, <<callNo + 1, 1>>), Running(c2, <<callNo + 2, 1>>)>>]
    /\ callNo' = callNo + 2
    /\ UNCHANGED <<fs, now, okBuilds, issued, last>>

DoStartCalls ==
    /\ CanCall /\ Quiet
    /\ \E c1 \in ConcurrentBuilds, c2 \in ConcurrentBuilds \cup ConcurrentRetrieves :
           StartCalls(c1, c2)

\* One of the running calls takes its next step.
Step(p) ==
    /\ inflight.calls[p].pc # "done"
    /\ \E o \in StepOutcomes(fs, inflight.calls[p]) :
           /\ fs' = o.fs
           /\ inflight' = [inflight EXCEPT !.calls[p] = o.proc]
           /\ okBuilds' = IF /\ o.proc.call.op = "build" /\ o.proc.pc = "done"
                             /\ o.proc.err = "none" /\ ~o.proc.noop
                          THEN okBuilds \cup {o.proc.id} ELSE okBuilds
    /\ UNCHANGED <<now, callNo, issued, last>>

NextConcurrent == DoStartCalls \/ \E p \in DOMAIN inflight.calls : Step(p)

SpecConcurrent == Init /\ [][NextConcurrent]_vars

(***************************************************************************)
(* The properties.                                                         *)
(***************************************************************************)
IndexOf(session_id) == fs[get_paths(session_id).INDEX_PATH]

MetaOf(session_id) == fs[get_paths(session_id).META_PATH]

\* row is the unit vector of the direction of raw
IsNormalizedOf(row, raw) ==
    /\ Len(row.num) = Len(raw)
    /\ row.den2 > 0
    /\ row.den2 = SumSq(row.num)
    /\ Dot(row.num, raw) > 0
    /\ \A i, j \in 1 .. Len(raw) : row.num[i] * raw[j] = row.num[j] * raw[i]

\* the index has one row per metadata entry, row i the normalized embedding
\* of entry i
Aligned(ix, m) ==
    /\ ix.kind = "index" /\ m.kind = "meta"
    /\ Len(ix.rows) = Len(m.chunks)
    /\ \A i \in 1 .. Len(m.chunks) : IsNormalizedOf(ix.rows[i], RawEmbed(m.chunks[i], ix.d))

LastBuilt == last.op = "build" /\ ~last.raised /\ ~last.noop

\* C1: whenever the index and the metadata of a session were both written by
\* one build call that returned without error, the metadata has as many
\* entries as the index has rows and row i is the normalized embedding of
\* entry i.
C1_Alignment ==
    \A s \in Sessions :
        (/\ IndexOf(s).exists /\ MetaOf(s).exists
         /\ IndexOf(s).by = MetaOf(s).by
         /\ IndexOf(s).by \in okBuilds)
        => Aligned(IndexOf(s), MetaOf(s))

\* a second successful build, of several batches, has written the pair
C1_Witness ==
    /\ LastBuilt /\ callNo >= 2 /\ Len(last.log) >= 2
    /\ IndexOf(last.session_id).by = last.id /\ MetaOf(last.session_id).by = last.id
    /\ Len(MetaOf(last.session_id).chunks) >= 3

\* C2: a build without force_rebuild on a session whose two artifacts exist
\* returns without calling embed and changes no file, whatever chunks and
\* batch size it is given.
C2_IdempotentBuild ==
    [][(/\ last'.op = "build"
        /\ ~last'.force_rebuild
        /\ Exists(fs, get_paths(last'.session_id).INDEX_PATH)
        /\ Exists(fs, get_paths(last'.session_id).META_PATH))
       => (fs' = fs /\ last'.log = <<>> /\ ~last'.raised /\ last'.noop)]_vars

\* a build without force_rebuild was given other chunks than the session holds
C2_Witness ==
    /\ last.op = "build" /\ last.noop /\ ~last.force_rebuild
    /\ MetaOf(last.session_id).kind = "meta"
    /\ Len(last.text_chunks) > 0
    /\ MetaOf(last.session_id).chunks # last.text_chunks

\* C3 as stated: a forced rebuild, returning without error, of M >= 1 chunks on
\* a session holding N >= 1 indexed chunks leaves an index of exactly M rows
\* and a metadata list of exactly the M chunks.
C3_RebuildReplaces_Stated ==
    (/\ LastBuilt /\ last.force_rebuild
     /\ last.prev.rows >= 1 /\ last.prev.chunks = last.prev.rows
     /\ Len(last.text_chunks) >= 1)
    => (/\ IndexOf(last.session_id).kind = "index"
        /\ Len(IndexOf(last.session_id).rows) = Len(last.text_chunks)
        /\ MetaOf(last.session_id).kind = "meta"
        /\ MetaOf(last.session_id).chunks = last.text_chunks)

\* C3, amended: the same for 1 <= M <= 1000.
C3_RebuildReplaces ==
    (/\ LastBuilt /\ last.force_rebuild
     /\ last.prev.rows >= 1 /\ last.prev.chunks = last.prev.rows
     /\ Len(last.text_chunks) >= 1 /\ Len(last.text_chunks) <= HardLimit)
    => (/\ IndexOf(last.session_id).kind = "index"
        /\ Len(IndexOf(last.session_id).rows) = Len(last.text_chunks)
        /\ MetaOf(last.session_id).kind = "meta"
        /\ MetaOf(last.session_id).chunks = last.text_chunks)

\* a forced rebuild of fewer chunks than the session held has returned
C3_Witness ==
    /\ LastBuilt /\ last.force_rebuild
    /\ last.prev.rows = HardLimit /\ last.prev.chunks = HardLimit
    /\ Len(last.text_chunks) = 2
    /\ Len(MetaOf(last.session_id).chunks) = 2

\* C4 as stated: a build that returns without error has persisted exactly the
\* supplied chunk sequence, embedded in consecutive batches of batch_size.
C4_CompleteInOrder_Stated ==
    LastBuilt
    => (/\ MetaOf(last.session_id).kind = "meta"
        /\ MetaOf(last.session_id).chunks = last.text_chunks)

\* C4, amended: the same for a supplied sequence of at most 1000 chunks.
C4_CompleteInOrder ==
    (LastBuilt /\ Len(last.text_chunks) <= HardLimit)
    => (/\ MetaOf(last.session_id).kind = "meta"
        /\ MetaOf(last.session_id).chunks = last.text_chunks
        /\ Len(last.log) * last.batch_size >= Len(last.text_chunks)
        /\ (Len(last.log) - 1) * last.batch_size < Len(last.text_chunks))

\* a build of 1000 chunks in batches of a size that does not divide 1000
C4_Witness ==
    /\ LastBuilt
    /\ Len(last.text_chunks) = HardLimit
    /\ HardLimit % last.batch_size # 0
    /\ Len(MetaOf(last.session_id).chunks) = HardLimit

IsIndex(file) == file.exists /\ file.kind = "index"

IsMeta(file) == file.exists /\ file.kind = "meta"

\* C5 as stated: no call being in progress, every session has both artifacts
\* or neither, and two that exist were written by the same build call.
C5_Pairing_Stated ==
    \A s \in Sessions :
        /\ IndexOf(s).exists <=> MetaOf(s).exists
        /\ (IndexOf(s).exists /\ MetaOf(s).exists) => IndexOf(s).by = MetaOf(s).by

\* some batch after the first was answered with another width than the first
WidthChanged(log) == \E j \in 2 .. Len(log) : log[j] # 0 /\ log[1] # 0 /\ log[j] # log[1]

\* C6: on a session without artifacts, a build in which a batch after the
\* first gets vectors of another width than the first batch's fails with the
\* width assertion's error, and the session has no artifact afterwards.
C6_DimensionPinning ==
    (/\ last.op = "build"
     /\ last.prev.rows = -1 /\ last.prev.chunks = -1
     /\ WidthChanged(last.log))
    => (/\ last.raised /\ last.err = "AssertionError"
        /\ ~IndexOf(last.session_id).exists
        /\ ~MetaOf(last.session_id).exists)

\* the third batch of a build on a fresh session came with another width
C6_Witness ==
    /\ last.op = "build" /\ last.raised
    /\ last.prev.rows = -1 /\ last.prev.chunks = -1
    /\ Len(last.log) = 3 /\ last.log[3] # last.log[1] /\ last.log[3] # 0
    /\ ~IndexOf(last.session_id).exists

\* C7 as stated, its last clause: a retrieval on a session whose metadata
\* list and index differ in length (it is to be rejected before any search)
\* returns no text.
C7_CorruptionDetected_Stated ==
    (/\ last.op = "retrieve"
     /\ IsIndex(IndexOf(last.session_id)) /\ IsMeta(MetaOf(last.session_id))
     /\ Len(IndexOf(last.session_id).rows) # Len(MetaOf(last.session_id).chunks))
    => last.value = <<>>

\* the file system with the artifacts of every session but session_id removed
Only(f, session_id) ==
    [p \in DOMAIN f |->
        IF p \in {get_paths(session_id).INDEX_PATH, get_paths(session_id).META_PATH}
        THEN f[p] ELSE NoFile]

\* C8: a build or a retrieval on one session changes no artifact of another
\* session, and what a retrieval returns is what it can return with the
\* artifacts of every other session removed.
C8_SessionIsolation ==
    [][/\ \A b \in Sessions :
              (last'.op \in {"build", "retrieve"} /\ last'.session_id # b)
              => (/\ fs'[get_paths(b).INDEX_PATH] = fs[get_paths(b).INDEX_PATH]
                  /\ fs'[get_paths(b).META_PATH] = fs[get_paths(b).META_PATH])
       /\ last'.op = "retrieve"
          => \E plan \in QueryPlans :
                 \E r \in retrieve_chunks(Only(fs, last'.session_id), last'.query,
                                          last'.session_id, last'.k, plan) :
                     r.value = last'.value /\ r.err = last'.err]_vars

\* a retrieval returns text of its session while another session holds a pair
\* of other chunks
C8_Witness ==
    /\ last.op = "retrieve" /\ last.value # <<>>
    /\ \E b \in Sessions \ {last.session_id} :
           /\ IsIndex(IndexOf(b)) /\ IsMeta(MetaOf(b))
           /\ MetaOf(b).chunks # MetaOf(last.session_id).chunks
           /\ MetaOf(b).by[1] > MetaOf(last.session_id).by[1]

\* C9 as stated, its conclusion: the session identifiers of the upload_docs
\* calls being pairwise distinct, no build of an upload is short-circuited by
\* the artifacts of another upload.
C9_SessionUnique_Stated ==
    last.op = "upload" => \A n \in 1 .. Len(last.builds) : ~last.builds[n].noop

\* C10 as stated: a retrieval on a session without an artifact pair leaves
\* retrieve_chunks as a not-found error.
C10_NotFoundRaised_Stated ==
    (/\ last.op = "retrieve"
     /\ ~(IndexOf(last.session_id).exists /\ MetaOf(last.session_id).exists))
    => (last.raised /\ last.err = "FileNotFoundError")

\* the session of the latest call holds N >= 1 aligned entries
HoldsAligned(session_id) ==
    /\ IsIndex(IndexOf(session_id)) /\ IsMeta(MetaOf(session_id))
    /\ Aligned(IndexOf(session_id), MetaOf(session_id))
    /\ Len(MetaOf(session_id).chunks) >= 1

\* C11 as stated: on a session holding N >= 1 aligned entries, a retrieval
\* with k >= 1 that runs to its return statement returns exactly min(k, N)
\* strings, each read from a different row.
C11_KClamping_Stated ==
    (/\ last.op = "retrieve" /\ last.err = "none" /\ last.k >= 1
     /\ HoldsAligned(last.session_id))
    => (/\ Len(last.value) = Min(last.k, Len(MetaOf(last.session_id).chunks))
        /\ Len(last.rows) = Len(last.value)
        /\ Injective([x \in 1 .. Len(last.rows) |->
                          PyPos(MetaOf(last.session_id).chunks, last.rows[x])]))

\* the normalized query vector of lines 125-129, for an answer of width d
QueryVec(query, d) == NormalizeRow(RawEmbed(Slice(query, QueryCap), d))

\* rows (0-based) are distinct rows of ix, best first, and no row left out
\* scores higher than one of them
RankedBest(ix, q, rows) ==
    LET n == Len(ix.rows)
        m == Len(rows)
    IN  /\ \A x \in 1 .. m : rows[x] \in 0 .. n - 1
        /\ Injective(rows)
        /\ \A x \in 1 .. m - 1 :
               ScoreGeq(ix.rows[rows[x] + 1], ix.rows[rows[x + 1] + 1], q)
        /\ \A x \in 1 .. m : \A o \in (1 .. n) \ {rows[y] + 1 : y \in 1 .. m} :
               ScoreGeq(ix.rows[rows[x] + 1], ix.rows[o], q)

\* a retrieval on an aligned pair whose query got a normalized vector of the
\* index's width
RankingCase ==
    /\ last.op = "retrieve" /\ last.k >= 1
    /\ HoldsAligned(last.session_id)
    /\ last.log = <<IndexOf(last.session_id).d>>
    /\ ~IsNaN(QueryVec(last.query, IndexOf(last.session_id).d))

\* the rows of the result are the min(k, N) best rows, best first; with k = 1
\* and a row equal to the query vector the result is such a row
Ranked ==
    LET ix == IndexOf(last.session_id)
        q == QueryVec(last.query, ix.d)
    IN  /\ last.err = "none"
        /\ Len(last.rows) = Min(last.k, Len(ix.rows))
        /\ RankedBest(ix, q, last.rows)
        /\ (last.k = 1 /\ \E i \in 1 .. Len(ix.rows) : ix.rows[i] = q)
           => ix.rows[last.rows[1] + 1] = q

\* C12 as stated: on an aligned pair, a retrieval returns the texts of the k
\* rows of highest inner product with the normalized query vector, best
\* first.
C12_TopKRanking_Stated ==
    RankingCase
    => (/\ Ranked
        /\ last.value = [x \in 1 .. Len(last.rows) |->
                             MetaOf(last.session_id).chunks[last.rows[x] + 1]])

\* C12, amended: it returns the first 500 characters of each of these texts.
C12_TopKRanking ==
    RankingCase
    => (/\ Ranked
        /\ last.value = [x \in 1 .. Len(last.rows) |->
                             Slice(MetaOf(last.session_id).chunks[last.rows[x] + 1], ChunkCap)])

\* two of three rows were returned, the best of them not the first row
C12_Witness ==
    /\ RankingCase /\ last.k = 2
    /\ Len(IndexOf(last.session_id).rows) = 3
    /\ Len(last.value) = 2
    /\ last.rows[1] # 0
    /\ ~ScoreGeq(IndexOf(last.session_id).rows[1],
                 IndexOf(last.session_id).rows[last.rows[1] + 1],
                 QueryVec(last.query, IndexOf(last.session_id).d))

\* C13 as stated: every string a retrieval returns is exactly the metadata
\* entry at the row the search returned for it, whatever its length.
C13_Projection_Stated ==
    (last.op = "retrieve" /\ IsMeta(MetaOf(last.session_id)))
    => \A x \in 1 .. Len(last.value) :
           last.rows[x] >= 0
           => last.value[x] = MetaOf(last.session_id).chunks[last.rows[x] + 1]

\* C13, amended: every string a retrieval returns is the first 500 characters
\* of the metadata entry chunks[i] at the index i the search returned for it.
C13_Projection ==
    (last.op = "retrieve" /\ last.value # <<>>)
    => (/\ IsMeta(MetaOf(last.session_id))
        /\ Len(last.value) = Len(last.rows)
        /\ \A x \in 1 .. Len(last.value) :
               /\ PyInRange(MetaOf(last.session_id).chunks, last.rows[x])
               /\ last.value[x] =
                      Slice(PyGet(MetaOf(last.session_id).chunks, last.rows[x]), ChunkCap)
               /\ last.value[x].len <= ChunkCap)

\* a retrieval returned a long entry cut and a short one whole, the first of
\* them not the first entry
C13_Witness ==
    /\ last.op = "retrieve" /\ Len(last.value) = 2
    /\ last.rows[1] > 0 /\ last.rows[2] >= 0
    /\ \E x, y \in 1 .. 2 :
           /\ MetaOf(last.session_id).chunks[last.rows[x] + 1].len > ChunkCap
           /\ last.value[x].len = ChunkCap
           /\ last.value[y] = MetaOf(last.session_id).chunks[last.rows[y] + 1]

\* C14 as stated: the rows of equal score that a retrieval returns come in
\* ascending insertion position.
C14_TieBreak_Stated ==
    (RankingCase /\ last.err = "none")
    => LET ix == IndexOf(last.session_id)
           q == QueryVec(last.query, ix.d)
           Tied(i, j) == ScoreGeq(ix.rows[i], ix.rows[j], q) /\ ScoreGeq(ix.rows[j], ix.rows[i], q)
       IN  \A x, y \in 1 .. Len(last.rows) :
               (x < y /\ Tied(last.rows[x] + 1, last.rows[y] + 1))
               => last.rows[x] < last.rows[y]

\* C15: a retrieval, whether it succeeds or fails, leaves the index and the
\* metadata of every session as they were, and creates none.
C15_ReadOnly ==
    [][last'.op = "retrieve"
       => \A s \in Sessions :
              /\ fs'[get_paths(s).INDEX_PATH] = fs[get_paths(s).INDEX_PATH]
              /\ fs'[get_paths(s).META_PATH] = fs[get_paths(s).META_PATH]]_vars

\* a retrieval has failed on a session without artifacts while another
\* session holds a pair
C15_Witness ==
    /\ last.op = "retrieve" /\ last.err = "FileNotFoundError"
    /\ ~IndexOf(last.session_id).exists /\ ~MetaOf(last.session_id).exists
    /\ \E b \in Sessions \ {last.session_id} : IsIndex(IndexOf(b)) /\ IsMeta(MetaOf(b))

\* embed_texts answered text i of the latest build with the zero vector
ZeroAnswered(i) ==
    LET j == ((i - 1) \div last.batch_size) + 1
    IN  /\ j <= Len(last.log) /\ last.log[j] # 0
        /\ i - (j - 1) * last.batch_size <= last.counts[j]
        /\ SumSq(RawEmbed(last.text_chunks[i], last.log[j])) = 0

\* C16 as stated: a build in which embed_texts answers a text with the zero
\* vector fails, no index ever holds a row that is not a number, and a query
\* that is answered with the zero vector fails without a search.
C16_ZeroRejected_Stated ==
    /\ (last.op = "build" /\ \E i \in 1 .. Len(last.text_chunks) : ZeroAnswered(i))
       => last.raised
    /\ \A s \in Sessions :
           IsIndex(IndexOf(s)) => \A i \in 1 .. Len(IndexOf(s).rows) : ~IsNaN(IndexOf(s).rows[i])
    /\ (/\ last.op = "retrieve" /\ Len(last.log) = 1 /\ last.log[1] # 0
        /\ IsNaN(QueryVec(last.query, last.log[1])))
       => (last.raised /\ last.rows = <<>>)

\* the file was written by the latest call
WrittenByLast(file) == file.exists /\ file.kind # "dir" /\ file.by = last.id

\* call j of embed_texts in the latest build raised or answered with another
\* number of vectors than its batch has texts
EmbedDeviated(j) ==
    \/ last.counts[j] = -1
    \/ last.counts[j] # Len(BatchAt(last.text_chunks, (j - 1) * last.batch_size, last.batch_size))

\* C17 as stated: a build in which a call of embed_texts raises or answers
\* with a number of vectors other than the number of texts fails, and neither
\* artifact is written by it.
C17_EmbedFailureAborts_Stated ==
    (last.op = "build" /\ \E j \in 1 .. Len(last.counts) : EmbedDeviated(j))
    => (/\ last.raised
        /\ ~WrittenByLast(IndexOf(last.session_id))
        /\ ~WrittenByLast(MetaOf(last.session_id)))

\* C18 as stated: a retrieval whose embed_texts call raises leaves
\* retrieve_chunks as an error, after that one call of embed_texts.
C18_QueryEmbedFailure_Stated ==
    (last.op = "retrieve" /\ last.err = "EmbeddingError")
    => (last.raised /\ Len(last.log) = 1)

\* two builds on one session have run at the same time, both past the check
\* of line 62, and both have returned
BothBuilt ==
    /\ inflight.calls # <<>> /\ Quiet
    /\ \A p \in 1 .. 2 :
           /\ inflight.calls[p].call.op = "build"
           /\ ~inflight.calls[p].noop /\ inflight.calls[p].err = "none"
    /\ inflight.calls[1].call.session_id = inflight.calls[2].call.session_id

\* C19 as stated: once two builds on the same session that both passed the
\* already-built check have finished, the index and the metadata of the
\* session come from the same call and are aligned.
C19_SameSessionBuilds_Stated ==
    BothBuilt
    => LET s == inflight.calls[1].call.session_id
       IN  /\ IsIndex(IndexOf(s)) /\ IsMeta(MetaOf(s))
           /\ IndexOf(s).by = MetaOf(s).by
           /\ Aligned(IndexOf(s), MetaOf(s))


\* The index file and the metadata file of a session.
Artifacts(f, session_id) ==
    <<f[get_paths(session_id).INDEX_PATH], f[get_paths(session_id).META_PATH]>>

\* What a call leaves and answers when it runs alone, from its first line to
\* its return, on the file system f.
RunAlone(f, c, id) ==
    IF c.op = "build"
    THEN {[fs |-> b.fs, err |-> b.err, value |-> <<>>] :
             b \in {build_index(f, c.text_chunks, c.session_id, c.force_rebuild,
                                c.batch_size, OkPlan, "ok", id)}}
    ELSE {[fs |-> f, err |-> x.err, value |-> x.value] :
             x \in retrieve_chunks(f, c.query, c.session_id, c.k, OkPlan)}

\* The first call alone, then the second: the artifacts of the sessions a and
\* b at the end, and what the first and the second call answered.
OneAfterTheOther(f, first, second, a, b) ==
    UNION {{[ofA |-> Artifacts(y.fs, a), ofB |-> Artifacts(y.fs, b),
             first |-> <<x.err, x.value>>, second |-> <<y.err, y.value>>] :
               y \in RunAlone(x.fs, second.call, second.id)} :
           x \in RunAlone(f, first.call, first.id)}

Answered(r) == <<r.err, r.value>>

\* two calls on different sessions have run at the same time and returned
DifferentSessionsDone ==
    /\ inflight.calls # <<>> /\ Quiet
    /\ inflight.calls[1].call.session_id # inflight.calls[2].call.session_id

InEitherOrder(f0, f, r1, r2) ==
    /\ [ofA |-> Artifacts(f, r1.call.session_id), ofB |-> Artifacts(f, r2.call.session_id),
        first |-> Answered(r1), second |-> Answered(r2)]
           \in OneAfterTheOther(f0, r1, r2, r1.call.session_id, r2.call.session_id)
    /\ [ofA |-> Artifacts(f, r1.call.session_id), ofB |-> Artifacts(f, r2.call.session_id),
        first |-> Answered(r2), second |-> Answered(r1)]
           \in OneAfterTheOther(f0, r2, r1, r1.call.session_id, r2.call.session_id)

\* C20: a build on session A run at the same time as a build or a retrieve
\* on a different session B, in whatever order their steps interleave, leaves
\* the index and metadata files of A and of B, and answers the call on B (and
\* the build on A), as the two calls do when one runs after the other, in
\* either order.
C20_DifferentSessions ==
    DifferentSessionsDone
    => InEitherOrder(inflight.fs0, fs, inflight.calls[1], inflight.calls[2])

\* a build on one session has written its pair while a retrieve on the other
\* session, built before, has answered with text
C20_Witness ==
    /\ DifferentSessionsDone
    /\ inflight.calls[1].err = "none" /\ ~inflight.calls[1].noop
    /\ inflight.calls[2].call.op = "retrieve"
    /\ inflight.calls[2].err = "none" /\ inflight.calls[2].value # <<>>
    /\ IsIndex(IndexOf(inflight.calls[1].call.session_id))
    /\ IndexOf(inflight.calls[1].call.session_id).by = inflight.calls[1].id


\* the build r ended as the build b did, leaving the file system f1
SameBuild(r, f1, b) ==
    r.fs = f1 /\ r.err = b.err /\ r.raised = b.raised /\ r.noop = b.noop /\ r.log = b.log

\* the build b, made on f and leaving f1, ends the same with the process
\* above the threshold at any other polls
SignalIgnored(f, f1, b) ==
    \A m \in MemSignals(b.text_chunks, b.batch_size) :
        SameBuild(build_index(f, b.text_chunks, b.session_id, b.force_rebuild, b.batch_size,
                              [b.env.plan EXCEPT !.mem = m], b.env.wr, b.id),
                  f1, b)

\* the batches of the build b that were embedded, normalized and appended
BatchesAppended(b) ==
    IF b.err \in {"EmbeddingError", "AxisError", "AssertionError"}
    THEN Len(b.log) - 1 ELSE Len(b.log)

\* C21: check_memory_usage is polled once after every batch of a build, and
\* what it answers changes nothing: for the same chunks, embed results and
\* storage, the build succeeds or fails with the same error and leaves the
\* same files whatever the polls answer, so no error comes from the signal.
C21_MemoryAdvisory ==
    [][last'.op = "build"
       => (/\ Len(last'.polls) = BatchesAppended(last')
           /\ \A n \in 1 .. Len(last'.polls) : last'.polls[n] = (n \in last'.env.plan.mem)
           /\ SignalIgnored(fs, fs', last'))]_vars

\* a build of three batches has written its pair, the process above the
\* threshold at the first poll and not at the last
C21_Witness ==
    /\ LastBuilt /\ Len(last.polls) = 3
    /\ last.polls[1] /\ ~last.polls[3]
    /\ WrittenByLast(IndexOf(last.session_id)) /\ WrittenByLast(MetaOf(last.session_id))
    /\ Len(MetaOf(last.session_id).chunks) = 3


\* the build failed in one of its batches
FailedInBatch(b) == b.op = "build" /\ b.err \in {"EmbeddingError", "AxisError", "AssertionError"}

\* C22: a build that fails in any of its batches has written no artifact: the
\* index and the metadata of its session are as they were before the call, so
\* a pair that a forced rebuild found is still there and answers retrievals
\* as before.
C22_PersistAfterAllBatches ==
    [][FailedInBatch(last')
       => (/\ last'.raised
           /\ Artifacts(fs', last'.session_id) = Artifacts(fs, last'.session_id)
           /\ \A query \in QueryPool, k \in 1 .. MaxK :
                  retrieve_chunks(fs', query, last'.session_id, k, OkPlan)
                      = retrieve_chunks(fs, query, last'.session_id, k, OkPlan))]_vars

\* a forced rebuild has failed in its third batch on a session that holds the
\* pair of an earlier build
C22_Witness ==
    /\ FailedInBatch(last) /\ last.force_rebuild /\ Len(last.log) = 3
    /\ last.prev.rows >= 1 /\ last.prev.chunks = last.prev.rows
    /\ IsIndex(IndexOf(last.session_id)) /\ IsMeta(MetaOf(last.session_id))
    /\ IndexOf(last.session_id).by = MetaOf(last.session_id).by
    /\ IndexOf(last.session_id).by[1] < last.id[1]


\* C23 as stated: every string a retrieval returns was read at a row the
\* search matched, a row of the index (0 <= row < number of rows); a
\* placeholder or out-of-range row yields no text, also when the metadata and
\* the index differ in length.
C23_NoWrongText_Stated ==
    (last.op = "retrieve" /\ IsIndex(IndexOf(last.session_id)))
    => \A x \in 1 .. Len(last.value) :
           /\ x <= Len(last.rows)
           /\ last.rows[x] \in 0 .. Len(IndexOf(last.session_id).rows) - 1


\* exactly one of the two files of the session is there
OneArtifact(f, session_id) ==
    Exists(f, get_paths(session_id).INDEX_PATH) # Exists(f, get_paths(session_id).META_PATH)

\* C24: on a session with exactly one of its two artifacts, a build without
\* force_rebuild is not short-circuited: it embeds the chunks and, when it
\* returns without error, both artifacts are written by it; and a retrieval
\* on such a session returns no text.
C24_ExistsMeansBoth ==
    [][/\ (last'.op = "build" /\ ~last'.force_rebuild /\ OneArtifact(fs, last'.session_id))
          => (/\ ~last'.noop
              /\ Len(last'.text_chunks) >= 1 => Len(last'.log) >= 1
              /\ ~last'.raised
                 => (/\ IsIndex(fs'[get_paths(last'.session_id).INDEX_PATH])
                     /\ IsMeta(fs'[get_paths(last'.session_id).META_PATH])
                     /\ fs'[get_paths(last'.session_id).INDEX_PATH].by = last'.id
                     /\ fs'[get_paths(last'.session_id).META_PATH].by = last'.id))
       /\ (last'.op = "retrieve" /\ OneArtifact(fs, last'.session_id))
          => last'.value = <<>>]_vars

\* a build without force_rebuild has written the pair of a session that held
\* an index and no metadata
C24_Witness ==
    /\ LastBuilt /\ ~last.force_rebuild
    /\ last.prev.rows >= 1 /\ last.prev.chunks = -1
    /\ WrittenByLast(IndexOf(last.session_id)) /\ WrittenByLast(MetaOf(last.session_id))


\* C25 as stated: whatever the number of chunks and the batch size, a build
\* that returns without error has persisted at most 1000 chunks.
C25_HardLimit_Stated ==
    LastBuilt
    => (/\ IsIndex(IndexOf(last.session_id)) /\ IsMeta(MetaOf(last.session_id))
        /\ Len(IndexOf(last.session_id).rows) <= HardLimit
        /\ Len(MetaOf(last.session_id).chunks) <= HardLimit)


\* a retrieve has run at the same time as a forced rebuild of its session, and
\* both have returned
ReadDuringRebuild ==
    /\ inflight.calls # <<>> /\ Quiet
    /\ inflight.calls[1].call.op = "build" /\ inflight.calls[1].call.force_rebuild
    /\ inflight.calls[2].call.op = "retrieve"
    /\ inflight.calls[1].call.session_id = inflight.calls[2].call.session_id

\* C26 as stated: a retrieve that runs at the same time as a forced rebuild of
\* its session returns nothing, or texts read through the index and the
\* metadata of one and the same build.
C26_ReadDuringRebuild_Stated ==
    ReadDuringRebuild
    => \/ inflight.calls[2].value = <<>>
       \/ /\ Len(inflight.calls[2].readBy) = 2
          /\ inflight.calls[2].readBy[1] = inflight.calls[2].readBy[2]


RECURSIVE Flatten(_)
Flatten(seqs) == IF Len(seqs) = 0 THEN <<>> ELSE Head(seqs) \o Flatten(Tail(seqs))

\* the chunks the chunker produces for the files of a request that are read:
\* of every text batch its first 50
RECURSIVE Produced(_)
Produced(files) ==
    IF Len(files) = 0 THEN <<>>
    ELSE (IF Head(files).size > MaxFileSize \/ load_content(Head(files)).raised THEN <<>>
          ELSE Flatten([b \in 1 .. Len(chunk_text(Head(files))) |->
                           SubSeq(chunk_text(Head(files))[b], 1,
                                  Min(Len(chunk_text(Head(files))[b]), TextBatchCap))]))
         \o Produced(Tail(files))

\* C27 as stated: when upload_docs answers success with total_chunks = T,
\* 1 <= T <= 1000, the metadata of its session holds T chunks, those the
\* chunker produced, in the order produced.
C27_UploadIndexesAll_Stated ==
    (/\ last.op = "upload" /\ last.status = "success"
     /\ last.total_chunks >= 1 /\ last.total_chunks <= UploadChunkLimit)
    => (/\ IsMeta(MetaOf(last.session_id))
        /\ Len(MetaOf(last.session_id).chunks) = last.total_chunks
        /\ last.total_chunks = Len(Produced(SubSeq(last.uploaded_files, 1,
                                                   Min(Len(last.uploaded_files), MaxFiles))))
           => MetaOf(last.session_id).chunks =
                  Produced(SubSeq(last.uploaded_files, 1,
                                  Min(Len(last.uploaded_files), MaxFiles))))


\* the file fails in the per-file step before any chunk of it is made
FailsEarly(file) == file.size > MaxFileSize \/ load_content(file).raised

\* C28 as stated: in a request none of whose builds fails, every file that is
\* too large or unreadable is reported with status failed, and every other
\* file is still processed and reported, also when the failing file is the
\* first of the request.
C28_FileIsolation_Stated ==
    (/\ last.op = "upload"
     /\ \A n \in 1 .. Len(last.builds) : last.builds[n].err = "none")
    => (/\ last.status = "success"
        /\ Len(last.indexed_files) = Min(Len(last.uploaded_files), MaxFiles)
        /\ \A i \in 1 .. Len(last.indexed_files) :
               last.indexed_files[i].status =
                   IF FailsEarly(last.uploaded_files[i]) THEN "failed" ELSE "processed")


\* C29: a build of no chunks that is not short-circuited (its session has no
\* pair, or force_rebuild is set) raises an error without calling embed,
\* writes neither artifact and leaves the files of its session as they were;
\* and no index without rows and no metadata list without entries is ever
\* persisted.
C29_EmptyBuild ==
    [][/\ (/\ last'.op = "build" /\ Len(last'.text_chunks) = 0
           /\ \/ last'.force_rebuild
              \/ ~(/\ Exists(fs, get_paths(last'.session_id).INDEX_PATH)
                   /\ Exists(fs, get_paths(last'.session_id).META_PATH)))
          => (/\ last'.raised /\ last'.log = <<>>
              /\ Artifacts(fs', last'.session_id) = Artifacts(fs, last'.session_id))
       /\ \A s \in Sessions :
              /\ IsIndex(fs'[get_paths(s).INDEX_PATH])
                 => Len(fs'[get_paths(s).INDEX_PATH].rows) >= 1
              /\ IsMeta(fs'[get_paths(s).META_PATH])
                 => Len(fs'[get_paths(s).META_PATH].chunks) >= 1]_vars

\* a forced rebuild of no chunks has raised on a session that still holds the
\* pair of an earlier build
C29_Witness ==
    /\ last.op = "build" /\ Len(last.text_chunks) = 0 /\ last.force_rebuild
    /\ last.raised /\ last.err = "UnboundLocalError"
    /\ last.prev.rows >= 1 /\ last.prev.chunks = last.prev.rows
    /\ IsIndex(IndexOf(last.session_id)) /\ IsMeta(MetaOf(last.session_id))
    /\ Len(MetaOf(last.session_id).chunks) = last.prev.chunks


\* C30: whenever the retrieval of comprehensive_legal_analysis yields no
\* chunks, as it does on every session without its two artifacts and whenever
\* it failed internally, the call answers the "No relevant clauses found"
\* error and makes no call of generate_content, whatever the analysis_type.
C30_NoGenerationWithoutText ==
    (/\ last.op = "analysis"
     /\ \/ last.retrieved = <<>>
        \/ last.err # "none"
        \/ ~(IndexOf(last.session_id).exists /\ MetaOf(last.session_id).exists))
    => (last.error = NoClauses /\ last.generated = <<>> /\ last.retrieved = <<>>)

\* a comprehensive analysis on a session that holds a pair, its retrieval
\* failed in the embedder
C30_Witness ==
    /\ last.op = "analysis" /\ last.analysis_type = "comprehensive"
    /\ last.err = "EmbeddingError"
    /\ IsIndex(IndexOf(last.session_id)) /\ IsMeta(MetaOf(last.session_id))
    /\ last.error = NoClauses /\ last.generated = <<>>

====
